---- MODULE Spec2Model ----
(***************************************************************************)
(* Model of streamlit_app.py: the news-verification pipeline               *)
(*   generate_assertions -> fetch_all_results -> evaluate_assertions ->    *)
(*   asyncprocess_and_evaluate, driven by process_user_input, and the      *)
(*   verdict extraction check_result used by main.                         *)
(*                                                                         *)
(* Python strings are sequences of one-character strings, so that strip,   *)
(* splitlines, replace, lower and re.search are computed, not assumed.     *)
(***************************************************************************)
EXTENDS Integers, Sequences, FiniteSets, TLC

\* ------------------------------------------------------------------ bounds
\* Largest number of lines in the Generator's LLM response.
MaxLines == 2
\* Largest number of filler characters before and after the markers of a
\* text handed to check_result.
MaxPad == 1

\* ------------------------------------------------------- string primitives
Range(s) == {s[i] : i \in 1..Len(s)}

MinOf(S) == CHOOSE x \in S : \A y \in S : x <= y

MaxOf(S) == CHOOSE x \in S : \A y \in S : x >= y

\* The characters str.strip() removes (of the characters the model uses).
Whitespace == {" ", "\n", "\t"}

\* str.strip(): drop leading and trailing whitespace.
strip(s) ==
  LET keep == {i \in 1..Len(s) : s[i] \notin Whitespace}
  IN IF keep = {} THEN <<>> ELSE SubSeq(s, MinOf(keep), MaxOf(keep))

\* str.splitlines(): split at line breaks; no empty last line after a
\* trailing line break; the empty string has no lines.
RECURSIVE splitlines(_)
splitlines(s) ==
  IF s = <<>> THEN <<>>
  ELSE LET nl == {i \in 1..Len(s) : s[i] = "\n"}
       IN IF nl = {} THEN <<s>>
          ELSE <<SubSeq(s, 1, MinOf(nl) - 1)>>
                 \o splitlines(SubSeq(s, MinOf(nl) + 1, Len(s)))

IsNotStar(c) == c # "*"

\* str.replace("*", ""): delete every '*' wherever it stands.
replace_star(s) == SelectSeq(s, IsNotStar)

\* sep.join(list)
RECURSIVE join(_, _)
join(sep, list) ==
  IF list = <<>> THEN <<>>
  ELSE IF Len(list) = 1 THEN list[1]
  ELSE list[1] \o sep \o join(sep, Tail(list))

\* Lower-case / upper-case pairs of the letters the model uses.
CasePairs ==
  { <<"f","F">>, <<"i","I">>, <<"n","N">>, <<"a","A">>, <<"l","L">>,
    <<"r","R">>, <<"e","E">>, <<"s","S">>, <<"u","U">>, <<"t","T">>,
    <<"k","K">>, <<"x","X">>, <<"o","O">>, <<"c","C">> }

LowerChar(c) ==
  IF \E p \in CasePairs : p[2] = c
  THEN (CHOOSE p \in CasePairs : p[2] = c)[1]
  ELSE c

UpperChar(c) ==
  IF \E p \in CasePairs : p[1] = c
  THEN (CHOOSE p \in CasePairs : p[1] = c)[2]
  ELSE c

\* str.lower()
lower(s) == [i \in 1..Len(s) |-> LowerChar(s[i])]

\* re.search of a pattern without metacharacters: substring search.
re_search(pat, s) ==
  \E i \in 1..(Len(s) - Len(pat) + 1) : SubSeq(s, i, i + Len(pat) - 1) = pat

\* ------------------------------------------------------- program literals
NoAssertionsMsg == <<"N","o"," ","a","s","s","e","r","t","i","o","n","s"," ","g","e","n","e","r","a","t","e","d","."," ","C","a","n","n","o","t"," ","p","r","o","c","e","e","d",".">>

FakeMarker == <<"f","i","n","a","l"," ","r","e","s","u","l","t",":"," ","f","a","k","e">>

RealMarker == <<"f","i","n","a","l"," ","r","e","s","u","l","t",":"," ","r","e","a","l">>

\* Python's None, and a variable that has not been assigned yet.
None == "None"

Unset == "unset"

\* ------------------------------------------------------------ check_result
\* A plausible slip: the text is searched as it is, without lower().
check_result_case_sensitive(text) ==
  IF re_search(FakeMarker, text) THEN "FAKE"
  ELSE IF re_search(RealMarker, text) THEN "REAL"
  ELSE None

\* A plausible slip: the two markers are tested in the other order.
check_result_real_first(text) ==
  LET text_lower == lower(text)
  IN IF re_search(RealMarker, text_lower) THEN "REAL"
     ELSE IF re_search(FakeMarker, text_lower) THEN "FAKE"
     ELSE None

\* A plausible slip: the fall-through branch returns a label instead of None.
check_result_default_real(text) ==
  LET text_lower == lower(text)
  IN IF re_search(FakeMarker, text_lower) THEN "FAKE"
     ELSE IF re_search(RealMarker, text_lower) THEN "REAL"
     ELSE "REAL"

check_result(text) ==
  LET text_lower == lower(text)
  IN IF re_search(FakeMarker, text_lower) THEN "FAKE"
     ELSE IF re_search(RealMarker, text_lower) THEN "REAL"
     ELSE None

\* main: the panel the final evaluation is rendered in.
VerdictPanel(v) ==
  IF v = "FAKE" THEN "error"
  ELSE IF v = "REAL" THEN "success"
  ELSE "info"

\* ------------------------------------------------------ generate_assertions
\* Specimen lines of the Generator's LLM response: bulleted, bulleted without
\* a space, empty, blank, a lone bullet, and a padded repeat of the first.
ResponseLines ==
  { <<"*"," ","a">>, <<"*","b">>, <<>>, <<" ">>, <<"*">>,
    <<" ","*"," ","a"," ">> }

SeqsUpTo(S, n) == UNION {[1..m -> S] : m \in 0..n}

\* The LLM responses of the model: up to MaxLines specimen lines, joined by
\* line breaks.
Responses == {join(<<"\n">>, ls) : ls \in SeqsUpTo(ResponseLines, MaxLines)}

IsNonBlank(line) == strip(line) # <<>>

\* Lines 68-73: response.text.strip(), splitlines(), and for every line that
\* is not blank, line.strip().replace("*", "").
parse_assertions(text) ==
  LET lines == SelectSeq(splitlines(strip(text)), IsNonBlank)
  IN [i \in 1..Len(lines) |-> replace_star(strip(lines[i]))]

\* A plausible slip: the except branch falls back on a default question.
generate_assertions_fallback(ok, text) ==
  IF ok THEN parse_assertions(text) ELSE << <<"a">> >>

\* generate_assertions: what it returns when the LLM call succeeded with
\* `text` (ok) or raised (~ok, the except branch of lines 76-79).
generate_assertions(ok, text) ==
  IF ok THEN parse_assertions(text) ELSE <<>>

\* ------------------------------------------------------------ search data
\* A field of an evidence record that is missing, or present with null.
Absent == <<"<absent>">>

NullValue == <<"<None>">>

EmptyList == [kind |-> "list", items |-> <<>>]

RecordA == [title |-> <<"t","1">>, content |-> <<" ","c","1"," ">>, url |-> <<"u","1">>]

RecordB == [title |-> <<"t","2">>, content |-> <<"c","2">>, url |-> <<"u","2">>]

RecordNoTitle == [title |-> Absent, content |-> <<"c","3">>, url |-> Absent]

RecordNullContent == [title |-> <<"t","4">>, content |-> NullValue, url |-> <<"u","4">>]

\* What the search service answers with: a mapping that may or may not hold
\* "results", whose value is a list of records, or (malformed) a mapping.
SearchResponses ==
  { [has_results |-> TRUE, results |-> EmptyList],
    [has_results |-> FALSE, results |-> EmptyList],
    [has_results |-> TRUE, results |-> [kind |-> "list", items |-> <<RecordB, RecordA>>]],
    [has_results |-> TRUE, results |-> [kind |-> "list", items |-> <<RecordNoTitle>>]],
    [has_results |-> TRUE, results |-> [kind |-> "list", items |-> <<RecordNullContent>>]],
    [has_results |-> TRUE, results |-> [kind |-> "dict", items |-> <<RecordA>>]] }

\* result.get("results", [])
get_results(result) == IF result.has_results THEN result.results ELSE EmptyList

\* A plausible slip: a failed search hands on the evidence of a fixed query.
fetch_result_stale(assertion, ok, result) ==
  IF ok THEN <<assertion, get_results(result)>>
  ELSE <<assertion, [kind |-> "list", items |-> <<RecordA>>]>>

\* fetch_result: the pair it returns when the search succeeded with `result`
\* (ok) or raised (~ok, lines 89-91).
fetch_result(assertion, ok, result) ==
  IF ok THEN <<assertion, get_results(result)>> ELSE <<assertion, EmptyList>>

\* ------------------------------------------------------------- dictionary
\* A Python dict: its keys in insertion order and the value of each key.
EmptyDict == [keys |-> <<>>, val |-> <<>>]

\* A plausible slip: the value of the first occurrence of a key is kept.
DictSet_keep_first(d, k, v) ==
  IF k \in Range(d.keys) THEN d
  ELSE [keys |-> Append(d.keys, k), val |-> (k :> v) @@ d.val]

\* d[k] = v: a new key goes last, an existing key keeps its place.
DictSet(d, k, v) ==
  [keys |-> IF k \in Range(d.keys) THEN d.keys ELSE Append(d.keys, k),
   val |-> (k :> v) @@ d.val]

\* {assertion: res for assertion, res in results}
RECURSIVE DictFromPairs(_)
DictFromPairs(pairs) ==
  IF pairs = <<>> THEN EmptyDict
  ELSE LET n == Len(pairs)
       IN DictSet(DictFromPairs(SubSeq(pairs, 1, n - 1)), pairs[n][1], pairs[n][2])

\* ------------------------------------------------------- evaluation data
\* d.get(field, ""): the default stands in for a missing field only.
dict_get(rec, field) == IF rec[field] = Absent THEN <<>> ELSE rec[field]

EvidenceFields == {"title", "content", "url"}

\* A plausible slip: the emptiness test of line 120 is missing and the
\* defaults of lines 126-128 cover a missing first record.
ContextOutcome_no_skip(context) ==
  IF context.kind # "list" THEN "context_error"
  ELSE IF context.items = <<>> THEN "evaluate"
  ELSE IF \E f \in EvidenceFields : dict_get(context.items[1], f) = NullValue
       THEN "attribute_error"
  ELSE "evaluate"

\* A plausible slip: the fields are read with context[0][field], so that a
\* missing field raises KeyError and the assertion is skipped.
ContextOutcome_skip_missing(context) ==
  IF context.items = <<>> THEN "no_results"
  ELSE IF context.kind # "list" THEN "context_error"
  ELSE IF \E f \in EvidenceFields : context.items[1][f] = Absent
       THEN "context_error"
  ELSE IF \E f \in EvidenceFields : context.items[1][f] = NullValue
       THEN "attribute_error"
  ELSE "evaluate"

\* Lines 120-132 for one dictionary value:
\*   "no_results"      `not context` holds, the loop continues;
\*   "context_error"   context[0] raises KeyError (the value is a mapping
\*                     without the key 0), caught at line 129;
\*   "attribute_error" a field is present with null, so .strip() raises
\*                     AttributeError, which line 129 does not catch;
\*   "evaluate"        title, content and url are read and the prompt built.
ContextOutcome(context) ==
  IF context.items = <<>> THEN "no_results"
  ELSE IF context.kind # "list" THEN "context_error"
  ELSE IF \E f \in EvidenceFields : dict_get(context.items[1], f) = NullValue
       THEN "attribute_error"
  ELSE "evaluate"

\* The content the evaluation prompt embeds (line 127).
PromptContent(context) ==
  IF context.items = <<>> THEN <<>>
  ELSE strip(dict_get(context.items[1], "content"))

\* Texts of the evaluation LLM, before .strip().
EvalTexts == { <<" ","T","\n">>, <<"F">> }

\* Texts of the synthesis LLM, before .strip().
SynthTexts ==
  { <<" ","F","i","n","a","l"," ","R","e","s","u","l","t",":"," ","F","A","K","E","\n">>,
    <<"f","i","n","a","l"," ","r","e","s","u","l","t",":"," ","R","E","A","L">>,
    <<"O","v","e","r","a","l","l">> }

\* ------------------------------------------------------------------ state
VARIABLES
  pc,                 \* where process_user_input stands
  assertions_list,    \* process_user_input: the Generator's result
  tasks,              \* fetch_all_results: one fetch_result task per assertion
  doneOrder,          \* the order in which the tasks of the gather under way completed
  outOfOrder,         \* whether the last gather's tasks completed out of list order
  results_dict,       \* the EvidenceSet
  k,                  \* evaluate_assertions: position in results_dict.items()
  eval_response_list, \* evaluate_assertions: the JudgmentTexts
  combined_text,      \* asyncprocess_and_evaluate: the joined JudgmentTexts
  returned,           \* what process_user_input returned
  verdict,            \* main: check_result(final_evaluation)
  panel,              \* main: the panel of the final evaluation
  abortCause,         \* the stage whose exception left process_user_input
  genCalls,           \* LLM calls issued by generate_assertions
  genFailed,          \* whether the generation call raised
  fetchLog,           \* the queries of the search calls issued, in order
  evalLog,            \* the evaluation LLM calls issued, in order
  sleeps,             \* pacing delays taken
  synthCalls,         \* LLM calls issued by asyncprocess_and_evaluate
  cr_text,            \* check_result taken alone: its argument
  cr_result,          \* ... its result
  cr_panel,           \* ... the panel main chooses for it
  cr_pc               \* ... "input" before the call, "done" after

vars ==
  << pc, assertions_list, tasks, doneOrder, outOfOrder, results_dict, k,
     eval_response_list, combined_text, returned, verdict, panel, abortCause,
     genCalls, genFailed, fetchLog, evalLog, sleeps, synthCalls,
     cr_text, cr_result, cr_panel, cr_pc >>

pipelineVars ==
  << pc, assertions_list, tasks, doneOrder, outOfOrder, results_dict, k,
     eval_response_list, combined_text, returned, verdict, panel, abortCause,
     genCalls, genFailed, fetchLog, evalLog, sleeps, synthCalls >>

crVars == << cr_text, cr_result, cr_panel, cr_pc >>

NotReturned == [done |-> FALSE, text |-> <<>>, evidence |-> EmptyDict]

InitPipeline ==
  /\ pc = "start"
  /\ assertions_list = <<>>
  /\ tasks = <<>>
  /\ doneOrder = <<>>
  /\ outOfOrder = FALSE
  /\ results_dict = EmptyDict
  /\ k = 1
  /\ eval_response_list = <<>>
  /\ combined_text = <<>>
  /\ returned = NotReturned
  /\ verdict = Unset
  /\ panel = Unset
  /\ abortCause = Unset
  /\ genCalls = 0
  /\ genFailed = FALSE
  /\ fetchLog = <<>>
  /\ evalLog = <<>>
  /\ sleeps = 0
  /\ synthCalls = 0

Init ==
  /\ InitPipeline
  /\ cr_text = <<>>
  /\ cr_result = Unset
  /\ cr_panel = Unset
  /\ cr_pc = "input"

\* -------------------------------------------------------- generation stage
\* generate_assertions up to its await (line 67).
GenerateCall ==
  /\ pc = "start"
  /\ pc' = "generating"
  /\ genCalls' = genCalls + 1
  /\ UNCHANGED << assertions_list, tasks, doneOrder, outOfOrder, results_dict, k,
                  eval_response_list, combined_text, returned, verdict, panel,
                  abortCause, genFailed, fetchLog, evalLog, sleeps, synthCalls >>
  /\ UNCHANGED crVars

\* A plausible slip: line 217 is missing, the run goes on with no assertions.
NoAssertions_never(al) == FALSE

\* Line 217: `if not assertions_list`.
NoAssertions(al) == al = <<>>

\* The rest of generate_assertions and lines 216-218 of process_user_input.
GenerateReturn(ok, text) ==
  /\ pc = "generating"
  /\ LET al == generate_assertions(ok, text)
     IN /\ assertions_list' = al
        /\ IF NoAssertions(al)
           THEN /\ pc' = "NO_ASSUMPTIONS"
                /\ returned' = [done |-> TRUE, text |-> NoAssertionsMsg,
                                evidence |-> EmptyDict]
           ELSE /\ pc' = "fetch"
                /\ UNCHANGED returned
  /\ genFailed' = ~ok
  /\ UNCHANGED << tasks, doneOrder, outOfOrder, results_dict, k, eval_response_list,
                  combined_text, verdict, panel, abortCause, genCalls,
                  fetchLog, evalLog, sleeps, synthCalls >>
  /\ UNCHANGED crVars

GenerateOk == \E text \in Responses : GenerateReturn(TRUE, text)

GenerateFail == GenerateReturn(FALSE, <<>>)

\* ------------------------------------------------------------- fetch stage
NoResult == [has_results |-> FALSE, results |-> EmptyList]

\* Lines 99-100 up to the await: one fetch_result coroutine per assertion,
\* all handed to asyncio.gather, which schedules them in list order.
NewTask(assertion) ==
  [assertion |-> assertion, st |-> "created", ok |-> FALSE,
   ret |-> <<assertion, EmptyList>>]

\* The assertions without their repeats, in the order of first occurrence.
RECURSIVE Distinct(_)
Distinct(al) ==
  IF al = <<>> THEN <<>>
  ELSE LET front == Distinct(SubSeq(al, 1, Len(al) - 1))
       IN IF al[Len(al)] \in Range(front) THEN front
          ELSE Append(front, al[Len(al)])

\* A plausible slip: a repeated assertion is searched for once only.
FetchTasks_dedup(al) ==
  [i \in 1..Len(Distinct(al)) |-> NewTask(Distinct(al)[i])]

\* Line 99: one fetch_result coroutine per element of the list.
FetchTasks(al) == [i \in 1..Len(al) |-> NewTask(al[i])]

FetchAllStart ==
  /\ pc = "fetch"
  /\ tasks' = FetchTasks(assertions_list)
  /\ pc' = "gathering"
  /\ UNCHANGED << assertions_list, doneOrder, outOfOrder, results_dict, k,
                  eval_response_list, combined_text, returned, verdict, panel,
                  abortCause, genCalls, genFailed, fetchLog, evalLog, sleeps,
                  synthCalls >>
  /\ UNCHANGED crVars

\* fetch_result up to its await (line 87): the search call is issued. The
\* event loop runs the scheduled tasks first in, first out.
FetchStart(i) ==
  /\ pc = "gathering"
  /\ i \in 1..Len(tasks)
  /\ tasks[i].st = "created"
  /\ \A j \in 1..(i - 1) : tasks[j].st # "created"
  /\ tasks' = [tasks EXCEPT ![i].st = "waiting"]
  /\ fetchLog' = Append(fetchLog, tasks[i].assertion)
  /\ UNCHANGED << pc, assertions_list, doneOrder, outOfOrder, results_dict, k,
                  eval_response_list, combined_text, returned, verdict, panel,
                  abortCause, genCalls, genFailed, evalLog, sleeps, synthCalls >>
  /\ UNCHANGED crVars

\* The search call of task i resolves, in any order among the tasks.
FetchResolve(i, ok, result) ==
  /\ pc = "gathering"
  /\ i \in 1..Len(tasks)
  /\ tasks[i].st = "waiting"
  /\ tasks' = [tasks EXCEPT ![i] =
                 [assertion |-> tasks[i].assertion, st |-> "done", ok |-> ok,
                  ret |-> fetch_result(tasks[i].assertion, ok, result)]]
  /\ doneOrder' = Append(doneOrder, i)
  /\ UNCHANGED << outOfOrder, pc, assertions_list, results_dict, k, eval_response_list,
                  combined_text, returned, verdict, panel, abortCause,
                  genCalls, genFailed, fetchLog, evalLog, sleeps, synthCalls >>
  /\ UNCHANGED crVars

FetchOk == \E i \in 1..Len(tasks), r \in SearchResponses : FetchResolve(i, TRUE, r)

FetchFail == \E i \in 1..Len(tasks) : FetchResolve(i, FALSE, NoResult)

\* A plausible slip: the gather returns as soon as one fetch has resolved.
GatherReady_first_completed ==
  tasks = <<>> \/ \E i \in 1..Len(tasks) : tasks[i].st = "done"

\* asyncio.gather returns when every task is done.
GatherReady == \A i \in 1..Len(tasks) : tasks[i].st = "done"

\* A plausible slip: the results are collected as the fetches complete.
GatherResults_completion_order ==
  [n \in 1..Len(doneOrder) |-> tasks[doneOrder[n]].ret]

\* asyncio.gather returns the results in the order of its arguments.
GatherResults == [i \in 1..Len(tasks) |-> tasks[i].ret]

\* Lines 100-102, and process_user_input entering evaluate_assertions.
GatherDone ==
  /\ pc = "gathering"
  /\ GatherReady
  /\ results_dict' = DictFromPairs(GatherResults)
  /\ pc' = "eval"
  /\ k' = 1
  /\ eval_response_list' = <<>>
  /\ outOfOrder' = (doneOrder # [i \in 1..Len(doneOrder) |-> i])
  /\ doneOrder' = <<>>
  /\ UNCHANGED << assertions_list, tasks, combined_text, returned,
                  verdict, panel, abortCause, genCalls, genFailed, fetchLog,
                  evalLog, sleeps, synthCalls >>
  /\ UNCHANGED crVars

\* -------------------------------------------------------- evaluation stage
\* The dictionary item the loop of line 119 stands at.
InLoop == pc = "eval" /\ k <= Len(results_dict.keys)

CurrentKey == results_dict.keys[k]

CurrentContext == results_dict.val[CurrentKey]

\* Lines 120-123: no search results, the assertion is skipped.
EvalSkipNoResults ==
  /\ InLoop
  /\ ContextOutcome(CurrentContext) = "no_results"
  /\ k' = k + 1
  /\ UNCHANGED << pc, assertions_list, tasks, doneOrder, outOfOrder, results_dict,
                  eval_response_list, combined_text, returned, verdict, panel,
                  abortCause, genCalls, genFailed, fetchLog, evalLog, sleeps,
                  synthCalls >>
  /\ UNCHANGED crVars

\* Lines 129-132: context[0] raised KeyError, the assertion is skipped.
EvalContextError ==
  /\ InLoop
  /\ ContextOutcome(CurrentContext) = "context_error"
  /\ k' = k + 1
  /\ UNCHANGED << pc, assertions_list, tasks, doneOrder, outOfOrder, results_dict,
                  eval_response_list, combined_text, returned, verdict, panel,
                  abortCause, genCalls, genFailed, fetchLog, evalLog, sleeps,
                  synthCalls >>
  /\ UNCHANGED crVars

\* Lines 126-128: .strip() on a null field raises AttributeError, which no
\* handler of evaluate_assertions or process_user_input catches.
EvalAttributeError ==
  /\ InLoop
  /\ ContextOutcome(CurrentContext) = "attribute_error"
  /\ pc' = "ABORTED"
  /\ abortCause' = "evaluator"
  /\ UNCHANGED << assertions_list, tasks, doneOrder, outOfOrder, results_dict, k,
                  eval_response_list, combined_text, returned, verdict, panel,
                  genCalls, genFailed, fetchLog, evalLog, sleeps, synthCalls >>
  /\ UNCHANGED crVars

\* The record of an evaluation call at the time it is issued.
CallRecord ==
  [key |-> CurrentKey, statement |-> strip(CurrentKey),
   content |-> PromptContent(CurrentContext), outcome |-> "pending",
   text |-> <<>>]

\* The last call of the log, resolved.
Resolved(outcome, text) ==
  [evalLog EXCEPT ![Len(evalLog)] =
     [key |-> @.key, statement |-> @.statement, content |-> @.content,
      outcome |-> outcome, text |-> text]]

\* A plausible slip: the call is started as a task and not awaited, the loop
\* goes on to the next assertion.
EvalCall_no_await ==
  /\ InLoop
  /\ ContextOutcome(CurrentContext) = "evaluate"
  /\ k' = k + 1
  /\ evalLog' = Append(evalLog, CallRecord)
  /\ UNCHANGED << pc, assertions_list, tasks, doneOrder, outOfOrder,
                  results_dict, eval_response_list, combined_text, returned,
                  verdict, panel, abortCause, genCalls, genFailed, fetchLog,
                  sleeps, synthCalls >>
  /\ UNCHANGED crVars

\* Lines 134-152: the prompt is built and the evaluation call issued.
EvalCall ==
  /\ InLoop
  /\ ContextOutcome(CurrentContext) = "evaluate"
  /\ pc' = "eval_wait"
  /\ evalLog' = Append(evalLog, CallRecord)
  /\ UNCHANGED << assertions_list, tasks, doneOrder, outOfOrder, results_dict, k,
                  eval_response_list, combined_text, returned, verdict, panel,
                  abortCause, genCalls, genFailed, fetchLog, sleeps,
                  synthCalls >>
  /\ UNCHANGED crVars

\* Lines 153-159 up to the await of the sleep: the judgment is appended.
EvalReturnOk ==
  /\ pc = "eval_wait"
  /\ \E text \in EvalTexts :
       /\ eval_response_list' = Append(eval_response_list, strip(text))
       /\ evalLog' = Resolved("ok", text)
  /\ pc' = "eval_sleep"
  /\ UNCHANGED << assertions_list, tasks, doneOrder, outOfOrder, results_dict, k,
                  combined_text, returned, verdict, panel, abortCause,
                  genCalls, genFailed, fetchLog, sleeps, synthCalls >>
  /\ UNCHANGED crVars

\* A plausible slip: a failed evaluation leaves an empty placeholder.
EvalReturnFail_placeholder ==
  /\ pc = "eval_wait"
  /\ pc' = "eval"
  /\ k' = k + 1
  /\ evalLog' = Resolved("fail", <<>>)
  /\ eval_response_list' = Append(eval_response_list, <<>>)
  /\ UNCHANGED << assertions_list, tasks, doneOrder, outOfOrder, results_dict,
                  combined_text, returned, verdict, panel, abortCause,
                  genCalls, genFailed, fetchLog, sleeps, synthCalls >>
  /\ UNCHANGED crVars

\* A plausible slip: the pause stands after the try statement, so that it
\* follows a failed evaluation too.
EvalReturnFail_with_delay ==
  /\ pc = "eval_wait"
  /\ pc' = "eval_sleep"
  /\ evalLog' = Resolved("fail", <<>>)
  /\ UNCHANGED << assertions_list, tasks, doneOrder, outOfOrder, results_dict,
                  k, eval_response_list, combined_text, returned, verdict,
                  panel, abortCause, genCalls, genFailed, fetchLog, sleeps,
                  synthCalls >>
  /\ UNCHANGED crVars

\* A plausible slip: a failed evaluation empties the assertion's evidence.
EvalReturnFail_clears_evidence ==
  /\ pc = "eval_wait"
  /\ pc' = "eval"
  /\ k' = k + 1
  /\ evalLog' = Resolved("fail", <<>>)
  /\ results_dict' = DictSet(results_dict, CurrentKey, EmptyList)
  /\ UNCHANGED << assertions_list, tasks, doneOrder, outOfOrder,
                  eval_response_list, combined_text, returned, verdict, panel,
                  abortCause, genCalls, genFailed, fetchLog, sleeps,
                  synthCalls >>
  /\ UNCHANGED crVars

\* Lines 160-164: the evaluation call raised, the loop goes on.
EvalReturnFail ==
  /\ pc = "eval_wait"
  /\ pc' = "eval"
  /\ k' = k + 1
  /\ evalLog' = Resolved("fail", <<>>)
  /\ UNCHANGED << assertions_list, tasks, doneOrder, outOfOrder, results_dict,
                  eval_response_list, combined_text, returned, verdict, panel,
                  abortCause, genCalls, genFailed, fetchLog, sleeps,
                  synthCalls >>
  /\ UNCHANGED crVars

\* Line 159: asyncio.sleep(1) is over, the loop goes on.
EvalSleepDone ==
  /\ pc = "eval_sleep"
  /\ pc' = "eval"
  /\ k' = k + 1
  /\ sleeps' = sleeps + 1
  /\ UNCHANGED << assertions_list, tasks, doneOrder, outOfOrder, results_dict,
                  eval_response_list, combined_text, returned, verdict, panel,
                  abortCause, genCalls, genFailed, fetchLog, evalLog,
                  synthCalls >>
  /\ UNCHANGED crVars

\* --------------------------------------------------------- synthesis stage
\* Lines 165-166 and 221, asyncprocess_and_evaluate up to its await
\* (line 207): the judgments are joined and the synthesis call issued.
SynthCall ==
  /\ pc = "eval"
  /\ k > Len(results_dict.keys)
  /\ combined_text' = join(<<"\n", "\n">>, eval_response_list)
  /\ synthCalls' = synthCalls + 1
  /\ pc' = "synth_wait"
  /\ UNCHANGED << assertions_list, tasks, doneOrder, outOfOrder, results_dict, k,
                  eval_response_list, returned, verdict, panel, abortCause,
                  genCalls, genFailed, fetchLog, evalLog, sleeps >>
  /\ UNCHANGED crVars

\* Lines 208 and 222: the stripped text and the EvidenceSet are returned.
SynthReturnOk ==
  /\ pc = "synth_wait"
  /\ \E text \in SynthTexts :
       returned' = [done |-> TRUE, text |-> strip(text),
                    evidence |-> results_dict]
  /\ pc' = "COMPLETED"
  /\ UNCHANGED << assertions_list, tasks, doneOrder, outOfOrder, results_dict, k,
                  eval_response_list, combined_text, verdict, panel,
                  abortCause, genCalls, genFailed, fetchLog, evalLog, sleeps,
                  synthCalls >>
  /\ UNCHANGED crVars

\* The synthesis call raised: nothing catches it (lines 206-208, 221).
SynthFail ==
  /\ pc = "synth_wait"
  /\ pc' = "ABORTED"
  /\ abortCause' = "synthesizer"
  /\ UNCHANGED << assertions_list, tasks, doneOrder, outOfOrder, results_dict, k,
                  eval_response_list, combined_text, returned, verdict, panel,
                  genCalls, genFailed, fetchLog, evalLog, sleeps, synthCalls >>
  /\ UNCHANGED crVars

\* -------------------------------------------------------------------- main
\* Lines 273-280: the verdict of the returned text and its panel.
MainCheckResult ==
  /\ returned.done
  /\ verdict = Unset
  /\ verdict' = check_result(returned.text)
  /\ panel' = VerdictPanel(check_result(returned.text))
  /\ UNCHANGED << pc, assertions_list, tasks, doneOrder, outOfOrder, results_dict, k,
                  eval_response_list, combined_text, returned, abortCause,
                  genCalls, genFailed, fetchLog, evalLog, sleeps, synthCalls >>
  /\ UNCHANGED crVars

Next ==
  \/ GenerateCall
  \/ GenerateOk
  \/ GenerateFail
  \/ FetchAllStart
  \/ \E i \in 1..Len(tasks) : FetchStart(i)
  \/ FetchOk
  \/ FetchFail
  \/ GatherDone
  \/ EvalSkipNoResults
  \/ EvalContextError
  \/ EvalAttributeError
  \/ EvalCall
  \/ EvalReturnOk
  \/ EvalReturnFail
  \/ EvalSleepDone
  \/ SynthCall
  \/ SynthReturnOk
  \/ SynthFail
  \/ MainCheckResult

Spec == Init /\ [][Next]_vars

\* ------------------------------------------------- check_result taken alone
\* n filler characters.
Filler(n) == [i \in 1..n |-> "x"]

CaseModes == {"lower", "upper", "title", "alternate", "label"}

\* A marker written in one of the letter cases an LLM may use.
Cased(s, mode) ==
  [i \in 1..Len(s) |->
     IF \/ mode = "upper"
        \/ mode = "title" /\ i \in {1, 7}
        \/ mode = "alternate" /\ i % 2 = 1
        \/ mode = "label" /\ i > 14
     THEN UpperChar(s[i]) ELSE s[i]]

\* The two markers, two near misses (no space after the colon, a cut label)
\* and nothing at all.
MarkerBases ==
  { FakeMarker, RealMarker,
    <<"f","i","n","a","l"," ","r","e","s","u","l","t",":","f","a","k","e">>,
    <<"f","i","n","a","l"," ","r","e","s","u","l","t",":"," ","r","e","a">>,
    <<>> }

MarkerForms == {Cased(b, m) : b \in MarkerBases, m \in CaseModes}

\* The texts check_result is applied to: two marker forms on two lines
\* between fillers, the empty text and the message of line 218.
VerdictTexts ==
  {Filler(p) \o a \o <<"\n">> \o b \o Filler(q) :
     p \in 0..MaxPad, q \in 0..MaxPad, a \in MarkerForms, b \in MarkerForms}
  \cup {<<>>, NoAssertionsMsg}

InitVerdict ==
  /\ InitPipeline
  /\ cr_text \in VerdictTexts
  /\ cr_result = Unset
  /\ cr_panel = Unset
  /\ cr_pc = "input"

\* verdict = check_result(final_evaluation) and the branch of lines 275-280.
ApplyCheckResult ==
  /\ cr_pc = "input"
  /\ cr_result' = check_result(cr_text)
  /\ cr_panel' = VerdictPanel(check_result(cr_text))
  /\ cr_pc' = "done"
  /\ UNCHANGED cr_text
  /\ UNCHANGED pipelineVars

NextVerdict == ApplyCheckResult

SpecVerdict == InitVerdict /\ [][NextVerdict]_vars

\* ------------------------------------------------------------- properties
\* What process_user_input returns in the NO_ASSUMPTIONS state.
NoAssumptionsResult ==
  [done |-> TRUE, text |-> NoAssertionsMsg, evidence |-> EmptyDict]

Generated == pc \notin {"start", "generating"}

\* The dictionary has been built by fetch_all_results.
Fetched ==
  pc \in {"eval", "eval_wait", "eval_sleep", "synth_wait", "COMPLETED", "ABORTED"}

\* a is b with some elements left out, the others in b's order.
RECURSIVE IsSubsequence(_, _)
IsSubsequence(a, b) ==
  IF a = <<>> THEN TRUE
  ELSE IF b = <<>> THEN FALSE
  ELSE IF Head(a) = Head(b) THEN IsSubsequence(Tail(a), Tail(b))
  ELSE IsSubsequence(a, Tail(b))

\* The last task that fetched for the key.
LastTaskOf(key) == MaxOf({i \in 1..Len(tasks) : tasks[i].assertion = key})

\* A first evidence record the Evaluator can read: a list with a first
\* record none of whose fields is null.
Readable(context) ==
  /\ context.kind = "list"
  /\ context.items # <<>>
  /\ \A f \in EvidenceFields : context.items[1][f] # NullValue

LoggedKeys == {evalLog[n].key : n \in 1..Len(evalLog)}

\* C1: when the Generator returns an empty sequence the run is at once in
\* NO_ASSUMPTIONS, has returned the fixed message with an empty EvidenceSet,
\* and has issued no search, evaluation or synthesis call.
C1_EmptyGenerationShortCircuits ==
  (Generated /\ assertions_list = <<>>) =>
     /\ pc = "NO_ASSUMPTIONS"
     /\ returned = NoAssumptionsResult
     /\ tasks = <<>>
     /\ fetchLog = <<>>
     /\ evalLog = <<>>
     /\ synthCalls = 0

\* An LLM response of blank lines only has ended the run in NO_ASSUMPTIONS.
C1_Witness ==
  /\ pc = "NO_ASSUMPTIONS"
  /\ ~genFailed
  /\ genCalls = 1
  /\ returned = NoAssumptionsResult

\* C2: the keys of the EvidenceSet are a subsequence of the Generator's
\* assertions: every key was emitted, and the keys stand in the Generator's
\* order whatever the order in which the fetches completed.
C2_KeysFollowGeneratorOrder ==
  /\ Range(results_dict.keys) \subseteq Range(assertions_list)
  /\ IsSubsequence(results_dict.keys, assertions_list)

\* Two different assertions whose fetches completed in the opposite order.
C2_Witness ==
  /\ Fetched
  /\ outOfOrder
  /\ Len(results_dict.keys) >= 2

\* C3: no evaluation call is issued and no judgment appended for an
\* assertion whose evidence is empty, and the loop still reaches the
\* assertions after it.
C3_EmptyEvidenceSkipped ==
  /\ \A n \in 1..Len(evalLog) : results_dict.val[evalLog[n].key].items # <<>>
  /\ Len(eval_response_list) <= Len(evalLog)
  /\ pc \in {"synth_wait", "COMPLETED"} =>
       \A key \in Range(results_dict.keys) :
          Readable(results_dict.val[key]) => key \in LoggedKeys

\* An assertion without evidence was skipped and a later one evaluated.
C3_Witness ==
  /\ pc = "COMPLETED"
  /\ \E i, j \in 1..Len(results_dict.keys) :
       /\ i < j
       /\ results_dict.val[results_dict.keys[i]].items = <<>>
       /\ results_dict.keys[i] \notin LoggedKeys
       /\ results_dict.keys[j] \in LoggedKeys
       /\ Len(eval_response_list) = 1

\* The characters are the same letter, in whatever case.
SameLetter(c, d) == c = d \/ <<c, d>> \in CasePairs \/ <<d, c>> \in CasePairs

\* The text holds the marker, each letter in either case.
ContainsAnyCase(marker, text) ==
  \E i \in 1..(Len(text) - Len(marker) + 1) :
     \A j \in 1..Len(marker) : SameLetter(marker[j], text[i + j - 1])

\* C4: check_result yields FAKE for every text that holds the fake marker in
\* any letter case, also when the real marker is there too, and REAL for
\* every text that holds the real marker in any letter case and not the
\* fake marker.
C4_CheckResultCaseInsensitive ==
  cr_pc = "done" =>
     /\ ContainsAnyCase(FakeMarker, cr_text) => cr_result = "FAKE"
     /\ (ContainsAnyCase(RealMarker, cr_text) /\ ~ContainsAnyCase(FakeMarker, cr_text))
          => cr_result = "REAL"

\* A text with the real marker before the fake marker, not in lower case.
C4_Witness ==
  /\ cr_pc = "done"
  /\ cr_result = "FAKE"
  /\ cr_text # lower(cr_text)
  /\ Len(cr_text) >= 2 * Len(FakeMarker)
  /\ ContainsAnyCase(RealMarker, SubSeq(cr_text, 1, Len(cr_text) - Len(FakeMarker)))
  /\ ContainsAnyCase(FakeMarker, SubSeq(cr_text, Len(RealMarker) + 1, Len(cr_text)))

NoMarker(text) ==
  ~ContainsAnyCase(FakeMarker, text) /\ ~ContainsAnyCase(RealMarker, text)

\* C5 as stated: a text with neither marker yields the label UNKNOWN.
C5_NoMarkerYieldsUnknown ==
  (cr_pc = "done" /\ NoMarker(cr_text)) => cr_result = "UNKNOWN"

\* C5 as amended: a text with neither marker yields None, which main renders
\* in the neutral panel, and the result is always FAKE, REAL or None.
C5_NoMarkerYieldsNone ==
  cr_pc = "done" =>
     /\ cr_result \in {"FAKE", "REAL", None}
     /\ NoMarker(cr_text) => (cr_result = None /\ cr_panel = "info")

\* check_result has been applied to the NO_ASSUMPTIONS message.
C5_Witness ==
  /\ cr_pc = "done"
  /\ cr_text = NoAssertionsMsg
  /\ cr_result = None

\* C6: a fetch whose search failed returns its assertion with an empty
\* sequence, the EvidenceSet holds for every key what the (last) fetch of
\* that key returned, whichever other fetches failed, and the run goes on.
C6_FetchFailureIsLocal ==
  /\ \A i \in 1..Len(tasks) :
       (tasks[i].st = "done" /\ ~tasks[i].ok) =>
          tasks[i].ret = <<tasks[i].assertion, EmptyList>>
  /\ Fetched =>
       \A key \in Range(results_dict.keys) :
          results_dict.val[key] = tasks[LastTaskOf(key)].ret[2]

\* One search failed, another returned evidence, the Evaluator is running.
C6_Witness ==
  /\ pc = "eval_wait"
  /\ \E i, j \in 1..Len(tasks) :
       /\ ~tasks[i].ok
       /\ tasks[j].ok
       /\ tasks[i].assertion # tasks[j].assertion
       /\ results_dict.val[tasks[i].assertion] = EmptyList
       /\ results_dict.val[tasks[j].assertion].items # <<>>

\* C7: a failed generation call is not retried, yields no assertions and
\* ends the run in NO_ASSUMPTIONS with the result of an empty generation.
C7_GenerationFailureDegrades ==
  /\ genCalls <= 1
  /\ genFailed =>
       /\ assertions_list = <<>>
       /\ pc = "NO_ASSUMPTIONS"
       /\ returned = NoAssumptionsResult
       /\ fetchLog = <<>>

\* The generation call raised and main has rendered the message.
C7_Witness ==
  /\ genFailed
  /\ pc = "NO_ASSUMPTIONS"
  /\ verdict = None
  /\ panel = "info"

\* C8 as stated: the only failure that aborts the run is a failure of the
\* Synthesizer call.
C8_OnlySynthesisAborts ==
  pc = "ABORTED" => abortCause = "synthesizer"

\* C9 as stated: when the Generator returned an assertion, the run ends with
\* the Synthesizer invoked exactly once, after the Evaluator, and in
\* COMPLETED with (synthesized text, EvidenceSet) unless that call failed.
C9_SynthesizerRunsOnce ==
  /\ synthCalls <= 1
  /\ synthCalls = 1 => k > Len(results_dict.keys)
  /\ (assertions_list # <<>> /\ pc \in {"COMPLETED", "ABORTED"}) =>
        /\ synthCalls = 1
        /\ abortCause # "synthesizer" =>
             (pc = "COMPLETED" /\ returned.done /\ returned.evidence = results_dict)

\* C10: every fetch task exists before the first search is issued, and no
\* evaluation call is issued before every fetch has resolved.
C10_FetchJoin ==
  /\ fetchLog # <<>> => Len(tasks) = Len(assertions_list)
  /\ (Fetched \/ evalLog # <<>>) =>
       /\ Len(tasks) = Len(assertions_list)
       /\ \A i \in 1..Len(tasks) : tasks[i].st = "done"

\* An evaluation call is out after fetches that completed out of order, one
\* of them by failure.
C10_Witness ==
  /\ pc = "eval_wait"
  /\ outOfOrder
  /\ Len(tasks) >= 2
  /\ \E i \in 1..Len(tasks) : ~tasks[i].ok

\* The place of a key in the insertion order of the EvidenceSet.
KeyPos(key) ==
  CHOOSE p \in 1..Len(results_dict.keys) : results_dict.keys[p] = key

Pending == {n \in 1..Len(evalLog) : evalLog[n].outcome = "pending"}

\* C11: at most one evaluation call is outstanding; it is the call for the
\* assertion the loop stands at, and it was issued after the call of every
\* earlier assertion of the EvidenceSet had resolved (or that assertion had
\* been skipped): the calls follow the insertion order, one at a time.
C11_EvaluationSequential ==
  /\ Cardinality(Pending) <= 1
  /\ \A n \in Pending :
       /\ n = Len(evalLog)
       /\ pc = "eval_wait"
       /\ evalLog[n].key = results_dict.keys[k]
  /\ pc = "eval_wait" => Pending # {}
  /\ \A m, n \in 1..Len(evalLog) :
       m < n =>
         /\ evalLog[m].key \in Range(results_dict.keys)
         /\ evalLog[n].key \in Range(results_dict.keys)
         /\ KeyPos(evalLog[m].key) < KeyPos(evalLog[n].key)
         /\ evalLog[m].outcome # "pending"

\* A second evaluation call is outstanding after the first one resolved.
C11_Witness ==
  /\ pc = "eval_wait"
  /\ Len(evalLog) = 2
  /\ evalLog[1].outcome = "ok"
  /\ evalLog[2].outcome = "pending"

\* The judgments of the calls that succeeded, in the order of the calls.
RECURSIVE JudgmentsOf(_)
JudgmentsOf(log) ==
  IF log = <<>> THEN <<>>
  ELSE IF Head(log).outcome = "ok"
       THEN <<strip(Head(log).text)>> \o JudgmentsOf(Tail(log))
       ELSE JudgmentsOf(Tail(log))

\* C12: the JudgmentText sequence holds one entry for each evaluation call
\* that succeeded, in insertion order, and nothing for a call that failed;
\* no assertion is called for twice, and after a failure the loop still
\* calls for every later assertion whose evidence it can read.
C12_JudgmentsOfSuccessfulCalls ==
  /\ eval_response_list = JudgmentsOf(evalLog)
  /\ \A m, n \in 1..Len(evalLog) : m # n => evalLog[m].key # evalLog[n].key
  /\ \A n \in 1..Len(evalLog) :
       evalLog[n].outcome = "fail" =>
         \A p \in 1..Len(results_dict.keys) :
            ( /\ p > KeyPos(evalLog[n].key)
              /\ p < k
              /\ Readable(results_dict.val[results_dict.keys[p]]) )
            => results_dict.keys[p] \in LoggedKeys

\* A failed evaluation was followed by a successful one: one judgment.
C12_Witness ==
  /\ pc = "COMPLETED"
  /\ Len(evalLog) = 2
  /\ evalLog[1].outcome = "fail"
  /\ evalLog[2].outcome = "ok"
  /\ Len(eval_response_list) = 1

\* The loop of the Evaluator has gone past the key.
Passed(key) == Fetched /\ KeyPos(key) < k

\* The first record of a list, with every expected field present.
Complete(context) ==
  /\ context.kind = "list"
  /\ context.items # <<>>
  /\ \A f \in EvidenceFields : context.items[1][f] \notin {Absent, NullValue}

\* C13 as stated: no evaluation call is issued for an assertion whose first
\* evidence record is malformed or lacks one of title, url and content.
C13_IncompleteRecordSkipped ==
  \A n \in 1..Len(evalLog) : Complete(results_dict.val[evalLog[n].key])

\* C13 as amended: no evaluation call is issued and no judgment produced
\* for an assertion whose evidence is not a list or whose first record has a
\* null field; a first record that only lacks fields is evaluated, a missing
\* field being read as the empty string.
C13_MissingFieldEvaluated ==
  /\ \A n \in 1..Len(evalLog) :
       /\ Readable(results_dict.val[evalLog[n].key])
       /\ LET rec == results_dict.val[evalLog[n].key].items[1]
          IN evalLog[n].content =
               IF rec.content = Absent THEN <<>> ELSE strip(rec.content)
  /\ Len(eval_response_list) <= Len(evalLog)
  /\ \A key \in Range(results_dict.keys) :
       Passed(key) => (key \in LoggedKeys <=> Readable(results_dict.val[key]))

\* A record without title and url was evaluated, a mapping was skipped.
C13_Witness ==
  /\ pc = "COMPLETED"
  /\ \E n \in 1..Len(evalLog) :
       /\ results_dict.val[evalLog[n].key].items[1].title = Absent
       /\ evalLog[n].outcome = "ok"
  /\ \E key \in Range(results_dict.keys) :
       /\ results_dict.val[key].kind = "dict"
       /\ key \notin LoggedKeys

\* C14 as stated: every assertion generate_assertions returns is non-empty,
\* holds no '*' and has no leading or trailing whitespace.
C14_AssertionsTrimmed ==
  \A i \in 1..Len(assertions_list) :
     /\ assertions_list[i] # <<>>
     /\ "*" \notin Range(assertions_list[i])
     /\ strip(assertions_list[i]) = assertions_list[i]

CallsFor(key) == {n \in 1..Len(evalLog) : evalLog[n].key = key}

\* C15: the Generator is invoked once; the searches issued are, one for one
\* and in order, the assertions the Generator emitted, never more; and at
\* most one evaluation call is issued for a key of the EvidenceSet.
C15_OneCallEach ==
  /\ genCalls <= 1
  /\ Generated => genCalls = 1
  /\ Len(fetchLog) <= Len(assertions_list)
  /\ fetchLog = SubSeq(assertions_list, 1, Len(fetchLog))
  /\ Fetched => fetchLog = assertions_list
  /\ \A n \in 1..Len(evalLog) :
       /\ evalLog[n].key \in Range(results_dict.keys)
       /\ Cardinality(CallsFor(evalLog[n].key)) = 1

\* A repeated assertion was searched for twice, a failed search not again.
C15_Witness ==
  /\ pc = "COMPLETED"
  /\ Len(assertions_list) = 2
  /\ assertions_list[1] = assertions_list[2]
  /\ fetchLog = assertions_list
  /\ \E i \in 1..Len(tasks) : ~tasks[i].ok
  /\ Len(evalLog) = 1

OkCalls == {n \in 1..Len(evalLog) : evalLog[n].outcome = "ok"}

\* C16: every successful evaluation is followed by one pacing delay, which
\* is over before the next evaluation call or the synthesis call is issued;
\* the delays taken are as many as the judgments, and a skipped or failed
\* evaluation is followed by none.
C16_DelayAfterEachSuccess ==
  /\ pc = "eval_sleep" =>
       (sleeps + 1 = Cardinality(OkCalls) /\ evalLog[Len(evalLog)].outcome = "ok")
  /\ pc # "eval_sleep" =>
       (sleeps = Cardinality(OkCalls) /\ sleeps = Len(eval_response_list))

\* The Evaluator has ended after a success and a failure: one delay.
C16_Witness ==
  /\ pc = "synth_wait"
  /\ Len(evalLog) = 2
  /\ \E n \in 1..2 : evalLog[n].outcome = "fail"
  /\ sleeps = 1
  /\ Len(eval_response_list) = 1

\* C17 as stated: a run that can go no further has ended in NO_ASSUMPTIONS,
\* in COMPLETED or in an abort caused by a failure of the Synthesizer.
C17_RunEndsInTerminalOutcome ==
  \/ ENABLED Next
  \/ pc \in {"NO_ASSUMPTIONS", "COMPLETED"}
  \/ pc = "ABORTED" /\ abortCause = "synthesizer"

\* The stage a position of process_user_input belongs to.
StageRank(p) ==
  CASE p \in {"start", "generating"} -> 1
    [] p \in {"fetch", "gathering"} -> 2
    [] p \in {"eval", "eval_wait", "eval_sleep"} -> 3
    [] p = "synth_wait" -> 4
    [] OTHER -> 5

\* The stages are entered in the forward order only (the part of C17 that
\* holds of the code).
StagesForward == [][StageRank(pc') >= StageRank(pc)]_vars

FetchedEvidence ==
  DictFromPairs([i \in 1..Len(tasks) |-> tasks[i].ret])

\* C19: the Evaluator and the Synthesizer leave the EvidenceSet as
\* fetch_all_results built it, and that mapping is what process_user_input
\* returns in COMPLETED.
C19_EvidenceSetUnchanged ==
  /\ Fetched => results_dict = FetchedEvidence
  /\ pc = "COMPLETED" => (returned.done /\ returned.evidence = FetchedEvidence)

\* A run completed after a skipped and a failed evaluation.
C19_Witness ==
  /\ pc = "COMPLETED"
  /\ Len(results_dict.keys) = 2
  /\ Len(evalLog) = 1
  /\ evalLog[1].outcome = "fail"
  /\ returned.evidence.val[evalLog[1].key].items # <<>>
  /\ \E key \in Range(returned.evidence.keys) :
       returned.evidence.val[key].items = <<>>

====
